---- MODULE Spec2Model ----
(***************************************************************************)
(* SekouAI risk classification and model lifecycle.                        *)
(*                                                                         *)
(* The model follows backend/main.py (the request handlers),               *)
(* backend/model_utils.py (the rules, the trainer/selector, the artifact   *)
(* codec) and backend/database.py (the tables, the patient helpers).       *)
(*                                                                         *)
(* Requests are handled by a pool of workers, one request per worker at a  *)
(* time; every handler owns a SQLAlchemy session on one SQLite file.       *)
(* A session's writes are invisible to the other sessions until COMMIT,    *)
(* and SQLite admits one writing transaction at a time.                    *)
(***************************************************************************)
EXTENDS Integers, Sequences, FiniteSets, TLC

VARIABLES
    models,        \* table "models": sequence of committed ModelArtifact rows
    predictions,   \* table "predictions": function id -> committed row
    patients,      \* table "patients": sequence of committed Patient rows
    now,           \* the clock read by Prediction's created_at default
    lock,          \* the worker holding SQLite's write lock, 0 when free
    shared,        \* the workers whose last SELECT may still hold its read lock
    req            \* per worker: the request it handles and where it stands

vars == <<models, predictions, patients, now, lock, shared, req>>

---------------------------------------------------------------------------
(* Bounds of the model *)

\* Number of workers handling requests concurrently.
NumWorkers == 2
\* Number of ModelArtifact rows a run creates.
MaxModels == 3
\* Number of Prediction rows a run creates (it caps the clock).
MaxPredictions == 2
\* Number of Patient rows a run creates.
MaxPatients == 1

(* Program constants *)

\* schemas.py: age: int = Field(..., ge=0, le=120)
MaxAge == 120
\* main.py: list_predictions ... .limit(100)
ListLimit == 100

Workers == 1..NumWorkers

Labels == {"low", "medium", "high"}

---------------------------------------------------------------------------
(* Rule engine: model_utils.py *)

\* A mutation of simple_risk_model: the medium tier starts above 1000.
simple_risk_model_exclusive(payload) ==
    IF payload.amount >= 10000 THEN "high"
    ELSE IF payload.amount > 1000 THEN "medium"
    ELSE "low"

\* payload.amount is a non-negative float; the model takes whole amounts.
simple_risk_model(payload) ==
    IF payload.amount >= 10000 THEN "high"
    ELSE IF payload.amount >= 1000 THEN "medium"
    ELSE "low"

\* A mutation of triage_risk_model: the medium rule is tried before the
\* age-and-fever rule.
triage_risk_model_reordered(payload) ==
    IF payload.shortness_of_breath THEN "high"
    ELSE IF payload.age >= 65 \/ (payload.fever /\ payload.cough) THEN "medium"
    ELSE IF payload.age >= 75 /\ payload.fever THEN "high"
    ELSE "low"

triage_risk_model(payload) ==
    IF payload.shortness_of_breath THEN "high"
    ELSE IF payload.age >= 75 /\ payload.fever THEN "high"
    ELSE IF payload.age >= 65 \/ (payload.fever /\ payload.cough) THEN "medium"
    ELSE "low"

---------------------------------------------------------------------------
(* Python values *)

\* {}: the empty dict.
EmptyDict == [k \in {} |-> 0]

\* {**a, **b}: the keys of both, b's value where both have the key.
DictMerge(a, b) ==
    [k \in (DOMAIN a) \cup (DOMAIN b) |-> IF k \in DOMAIN b THEN b[k] ELSE a[k]]

\* An Optional value is a set: {} is None, {v} is v.
None == {}
Some(v) == {v}
TheValue(opt) == CHOOSE v \in opt : TRUE

\* Floats as the selector meets them: finite values, nan and -inf.
Float(v) == [kind |-> "num", v |-> v]
NaN == [kind |-> "nan", v |-> 0]
NegInf == [kind |-> "-inf", v |-> 0]

\* A mutation of FloatGt: a >= b.
FloatGe(a, b) ==
    /\ a.kind # "nan"
    /\ b.kind # "nan"
    /\ \/ b.kind = "-inf"
       \/ a.kind = "num" /\ b.kind = "num" /\ a.v >= b.v

\* a > b on floats: false whenever either side is nan.
FloatGt(a, b) ==
    /\ a.kind # "nan"
    /\ b.kind # "nan"
    /\ \/ a.kind = "num" /\ b.kind = "-inf"
       \/ a.kind = "num" /\ b.kind = "num" /\ a.v > b.v

---------------------------------------------------------------------------
(* Fitted pipelines.  A fitted pipeline is what GridSearchCV hands back as *)
(* best_estimator_: the columns it was fitted on and a decision function.  *)
(* The learner is a library; its decision function is one of a few shapes, *)
(* among them one whose output is an encoded class, not a risk label.      *)

RuleNames == <<"by_amount", "always_medium", "class_index">>
ColumnNames == <<"amount", "category", "k">>

Rules == {RuleNames[i] : i \in DOMAIN RuleNames}

RuleOutput(rule, row) ==
    CASE rule = "by_amount" -> IF row["amount"] >= 500 THEN "high" ELSE "low"
      [] rule = "always_medium" -> "medium"
      [] OTHER -> "2"

\* model.predict(X_df)[0]: the column transformer raises on a frame that
\* lacks a column it was fitted on; columns it does not know are dropped.
PipelinePredict(P, row) ==
    IF ~(P.columns \subseteq DOMAIN row)
    THEN [raised |-> TRUE, value |-> ""]
    ELSE [raised |-> FALSE, value |-> RuleOutput(P.rule, row)]

NoPipeline == [columns |-> {}, rule |-> ""]

---------------------------------------------------------------------------
(* Artifact codec: joblib over an io.BytesIO buffer.                       *)
(* joblib is a library outside the repository.  Pickle and Unpickle stand  *)
(* for its stream: framed by the protocol marker 0x80 and the STOP opcode  *)
(* '.', between them the decision function and the columns.  They give the *)
(* artifact bytes a content that the handlers store, compare and load;     *)
(* what joblib.load returns for what joblib.dump wrote is the library's    *)
(* matter and nothing is concluded from these two definitions about it.    *)

IndexOf(seq, x) == CHOOSE i \in DOMAIN seq : seq[i] = x

RECURSIVE SetToSeq(_)
SetToSeq(S) ==
    IF S = {} THEN <<>>
    ELSE LET m == CHOOSE x \in S : \A y \in S : x <= y
         IN <<m>> \o SetToSeq(S \ {m})

Pickle(P) ==
    <<128, IndexOf(RuleNames, P.rule)>>
        \o SetToSeq({IndexOf(ColumnNames, c) : c \in P.columns})
        \o <<46>>

Unpickle(bytes) ==
    IF /\ Len(bytes) >= 3
       /\ bytes[1] = 128
       /\ bytes[Len(bytes)] = 46
       /\ bytes[2] \in DOMAIN RuleNames
       /\ \A i \in 3..(Len(bytes) - 1) : bytes[i] \in DOMAIN ColumnNames
    THEN [ok |-> TRUE,
          obj |-> [columns |-> {ColumnNames[bytes[i]] : i \in 3..(Len(bytes) - 1)},
                   rule |-> RuleNames[bytes[2]]]]
    ELSE [ok |-> FALSE, obj |-> NoPipeline]

\* io.BytesIO(initial): the bytes and the stream position.
BytesIO(initial) == [buf |-> initial, pos |-> 0]

\* buffer.write(data): overwrites from the position on and advances it.
BytesIO_write(buffer, data) ==
    [buf |-> SubSeq(buffer.buf, 1, buffer.pos) \o data
                \o SubSeq(buffer.buf, buffer.pos + Len(data) + 1, Len(buffer.buf)),
     pos |-> buffer.pos + Len(data)]

\* buffer.read(): the bytes from the position to the end.
BytesIO_read(buffer) == SubSeq(buffer.buf, buffer.pos + 1, Len(buffer.buf))

\* buffer.getvalue(): the whole buffer, whatever the position.
BytesIO_getvalue(buffer) == buffer.buf

\* joblib.dump(value, buffer)
joblib_dump(value, buffer) == BytesIO_write(buffer, Pickle(value))

\* joblib.load(buffer)
joblib_load(buffer) == Unpickle(BytesIO_read(buffer))

\* load_model_from_bytes(artifact).  importable: whether joblib and the
\* learner's package resolve in this process (they are optional packages).
load_model_from_bytes(artifact, importable) ==
    IF ~importable THEN [ok |-> FALSE, obj |-> NoPipeline]
    ELSE joblib_load(BytesIO(artifact))

---------------------------------------------------------------------------
(* Feature assembly *)

\* predict: data = payload.model_dump(); features = data.pop("features",
\* None) or {}; row = {**data, **features}
PredictRow(payload) ==
    LET data == [amount |-> payload.amount, category |-> payload.category]
        features == IF payload.features = None THEN EmptyDict
                    ELSE TheValue(payload.features)
    IN DictMerge(data, features)

\* The keys of the records' features dicts, as json_normalize lays them out.
FeatureColumns(records) ==
    LET keys == UNION {DOMAIN TheValue(records[i].features) :
                          i \in {j \in DOMAIN records : records[j].features # None}}
    IN SelectSeq(ColumnNames, LAMBDA c : c \in keys)

\* One cell of the column json_normalize makes of a features key: the
\* record's value for the key, NaN (None here) where the record has none.
FeatureCell(record, key) ==
    IF record.features # None /\ key \in DOMAIN TheValue(record.features)
    THEN Some(TheValue(record.features)[key])
    ELSE None

\* _records_to_dataframe(records): the frame's columns, their cells and the
\* labels.  pd.DataFrame([]) has no "label" column and df.pop raises
\* KeyError.  Every dumped TrainRecord carries "features", so the frame
\* always has the column; it is popped and the normalised features are
\* concatenated to the right of the base columns (pd.concat, axis=1), which
\* keeps both columns where a features key is the name of a base column.
records_to_dataframe(records) ==
    IF records = <<>>
    THEN [raised |-> TRUE, columns |-> <<>>, cells |-> <<>>, y |-> <<>>]
    ELSE LET feat == FeatureColumns(records)
         IN [raised |-> FALSE,
             columns |-> <<"amount", "category">> \o feat,
             cells |->
                 <<[i \in DOMAIN records |-> Some(records[i].amount)],
                   [i \in DOMAIN records |-> Some(records[i].category)]>>
                 \o [j \in DOMAIN feat |->
                        [i \in DOMAIN records |-> FeatureCell(records[i], feat[j])]],
             y |-> [i \in DOMAIN records |-> records[i].label]]

\* The column transformer selects its columns by name; fitting it on a
\* frame where a selected name is not unique raises ValueError.
ColumnsUnique(columns) ==
    \A i, j \in DOMAIN columns : columns[i] = columns[j] => i = j

---------------------------------------------------------------------------
(* Trainer / selector: train_select_serialize *)

\* env: what the run finds in its process.  env.xgb, env.lgbm: whether the
\* import in _grid_xgb / _grid_lgbm succeeds.  env.fit[name]: what
\* gs.fit(X_df, y) does for the candidate: it raises, or it leaves
\* best_score_, best_params_ and best_estimator_.
\* A mutation of Grids: every candidate is registered, resolved or not.
Grids_all(env) == <<"RandomForest", "XGBoost", "LightGBM">>

Grids(env) ==
    <<"RandomForest">>
        \o (IF env.xgb THEN <<"XGBoost">> ELSE <<>>)
        \o (IF env.lgbm THEN <<"LightGBM">> ELSE <<>>)

NoBest ==
    [raised |-> FALSE, best_name |-> "", best_score |-> NegInf,
     best_params |-> EmptyDict, best_estimator |-> None]

\* for name, gs in grids: gs.fit(X_df, y); if gs.best_score_ > best_score: ...
RECURSIVE SelectBest(_, _, _, _, _)
SelectBest(grids, fit, columns, i, best) ==
    IF i > Len(grids) THEN best
    ELSE LET name == grids[i]
             gs == fit[name]
         IN IF gs.raises \/ ~ColumnsUnique(columns)
            THEN [best EXCEPT !.raised = TRUE]
            ELSE IF FloatGt(gs.best_score, best.best_score)
            THEN SelectBest(grids, fit, columns, i + 1,
                     [raised |-> FALSE,
                      best_name |-> name,
                      best_score |-> gs.best_score,
                      best_params |-> gs.best_params,
                      best_estimator |->
                          Some([columns |-> {columns[c] : c \in DOMAIN columns},
                                rule |-> gs.rule])])
            ELSE SelectBest(grids, fit, columns, i + 1, best)

TrainRaised ==
    [raised |-> TRUE, best_name |-> "", best_score |-> NegInf,
     best_params |-> EmptyDict, artifact |-> <<>>, estimator |-> None]

\* A mutation of train_select_serialize: best_estimator is not checked and
\* None is dumped (its pickle is the protocol marker, 'N' and STOP).
train_select_serialize_unchecked(records, env) ==
    LET df == records_to_dataframe(records)
    IN IF df.raised THEN TrainRaised
       ELSE LET best == SelectBest(Grids(env), env.fit, df.columns, 1, NoBest)
            IN IF best.raised THEN TrainRaised
               ELSE [raised |-> FALSE,
                     best_name |-> best.best_name,
                     best_score |-> best.best_score,
                     best_params |-> best.best_params,
                     artifact |->
                         IF best.best_estimator = None THEN <<128, 78, 46>>
                         ELSE Pickle(TheValue(best.best_estimator)),
                     estimator |-> best.best_estimator]

\* train_select_serialize(records, scoring, cv_folds).  scoring and cv_folds
\* go to the grid search unread; their effect is in env.fit.  The estimator
\* field is the fitted pipeline that was serialized (not returned by the
\* code, kept to compare the artifact with it).
train_select_serialize(records, env) ==
    LET df == records_to_dataframe(records)
    IN IF df.raised THEN TrainRaised
       ELSE LET best == SelectBest(Grids(env), env.fit, df.columns, 1, NoBest)
            IN IF best.raised \/ best.best_estimator = None THEN TrainRaised
               ELSE LET buffer == joblib_dump(TheValue(best.best_estimator),
                                              BytesIO(<<>>))
                    IN [raised |-> FALSE,
                        best_name |-> best.best_name,
                        best_score |-> best.best_score,
                        best_params |-> best.best_params,
                        artifact |-> BytesIO_getvalue(buffer),
                        estimator |-> best.best_estimator]

---------------------------------------------------------------------------
(* Inference: the try block of predict *)

\* A mutation of infer: the predicted label is returned unvalidated.
infer_unvalidated(payload, active_model, importable) ==
    IF active_model = None
    THEN [raised |-> FALSE, risk |-> simple_risk_model(payload)]
    ELSE LET model == load_model_from_bytes(TheValue(active_model).artifact, importable)
             pred == PipelinePredict(model.obj, PredictRow(payload))
         IN IF ~model.ok \/ pred.raised
            THEN [raised |-> FALSE, risk |-> simple_risk_model(payload)]
            ELSE [raised |-> FALSE, risk |-> pred.value]

\* A mutation of infer: a failing load is not caught.
infer_uncaught(payload, active_model, importable) ==
    IF active_model = None
    THEN [raised |-> FALSE, risk |-> simple_risk_model(payload)]
    ELSE LET model == load_model_from_bytes(TheValue(active_model).artifact, importable)
             pred == PipelinePredict(model.obj, PredictRow(payload))
         IN IF ~model.ok
            THEN [raised |-> TRUE, risk |-> ""]
            ELSE IF pred.raised \/ pred.value \notin Labels
            THEN [raised |-> FALSE, risk |-> simple_risk_model(payload)]
            ELSE [raised |-> FALSE, risk |-> pred.value]

\* active_model: the row the query returned, or None.  The result tells
\* whether an exception leaves the block, and the risk it computed.
infer(payload, active_model, importable) ==
    IF active_model = None
    THEN [raised |-> FALSE, risk |-> simple_risk_model(payload)]
    ELSE LET model == load_model_from_bytes(TheValue(active_model).artifact, importable)
         IN IF ~model.ok
            THEN [raised |-> FALSE, risk |-> simple_risk_model(payload)]
            ELSE LET pred == PipelinePredict(model.obj, PredictRow(payload))
                 IN IF pred.raised
                    THEN [raised |-> FALSE, risk |-> simple_risk_model(payload)]
                    ELSE IF pred.value \notin Labels
                    THEN [raised |-> FALSE, risk |-> simple_risk_model(payload)]
                    ELSE [raised |-> FALSE, risk |-> pred.value]

---------------------------------------------------------------------------
(* Storage: database.py *)

\* INTEGER PRIMARY KEY without AUTOINCREMENT: the largest rowid plus one.
NextId(ids) ==
    IF ids = {} THEN 1
    ELSE (CHOOSE m \in ids : \A i \in ids : i <= m) + 1

\* A mutation of Deactivate: the active rows are deleted, not updated.
Deactivate_deleted(rows) == SelectSeq(rows, LAMBDA m : ~m.active)

\* A mutation of Deactivate: the UPDATE is left out.
Deactivate_skipped(rows) == rows

\* db.query(ModelArtifact).filter(active == True).update({"active": False})
Deactivate(rows) ==
    [i \in DOMAIN rows |-> [rows[i] EXCEPT !.active = FALSE]]

\* A mutation of CommittedAfterUpdate: the UPDATE is committed at once.
AutocommitAfterUpdate(committed, pending) == pending

\* What the table holds for the other sessions once a session has run
\* its UPDATE and not yet committed: sessionmaker(autocommit=False).
CommittedAfterUpdate(committed, pending) == committed

\* A mutation of ActiveModel: the query without its filter and its order.
ActiveModel_first(rows) == IF rows = <<>> THEN None ELSE Some(rows[1])

\* db.query(ModelArtifact).filter(active == True)
\*   .order_by(created_at.desc()).first()
ActiveModel(rows) ==
    LET act == {i \in DOMAIN rows : rows[i].active}
    IN IF act = {} THEN None
       ELSE Some(rows[CHOOSE i \in act :
                         \A j \in act : rows[j].created_at <= rows[i].created_at])

\* order_by(created_at.desc()) over a set of rows.
RECURSIVE OrderByCreatedDesc(_)
OrderByCreatedDesc(rows) ==
    IF rows = {} THEN <<>>
    ELSE LET r == CHOOSE x \in rows : \A y \in rows : y.created_at <= x.created_at
         IN <<r>> \o OrderByCreatedDesc(rows \ {r})

\* .limit(n)
Limit(seq, n) == SubSeq(seq, 1, IF Len(seq) < n THEN Len(seq) ELSE n)

\* list_predictions: the 100 latest rows.
list_predictions(table) ==
    Limit(OrderByCreatedDesc({table[i] : i \in DOMAIN table}), ListLimit)

\* list_models: every row, latest first, without the artifact bytes.
list_models(rows) ==
    LET ordered == OrderByCreatedDesc({rows[i] : i \in DOMAIN rows})
    IN [i \in DOMAIN ordered |->
           [id |-> ordered[i].id, name |-> ordered[i].name,
            created_at |-> ordered[i].created_at,
            metrics |-> ordered[i].metrics, active |-> ordered[i].active]]

\* A mutation of NewPrediction: the payload is dumped without the fields
\* that are None (model_dump(exclude_none=True)).
NewPrediction_exclude_none(table, risk, payload, clock) ==
    LET dropped == IF "features" \in DOMAIN payload
                   THEN (IF payload.features = None THEN {"features"} ELSE {})
                   ELSE {}
    IN [id |-> NextId(DOMAIN table), risk_level |-> risk,
        input_data |-> [k \in DOMAIN payload \ dropped |-> payload[k]],
        created_at |-> clock]

\* Prediction(risk_level=risk, input_data=payload.model_dump())
NewPrediction(table, risk, payload, clock) ==
    [id |-> NextId(DOMAIN table), risk_level |-> risk,
     input_data |-> payload, created_at |-> clock]

\* ModelArtifact(name=best_name, metrics={...}, artifact=artifact, active=True)
NewModelArtifact(rows, result) ==
    [id |-> NextId(DOMAIN rows), name |-> result.best_name,
     created_at |-> NextId(DOMAIN rows),
     metrics |-> [score |-> result.best_score, params |-> result.best_params],
     artifact |-> result.artifact, active |-> TRUE]

\* Patient(**patient.dict()); created_at has the server default func.now().
NewPatient(rows, patient, clock) ==
    [id |-> NextId(DOMAIN rows), name |-> patient.name, age |-> patient.age,
     sex |-> patient.sex, created_at |-> clock]

---------------------------------------------------------------------------
(* Request inputs *)

\* PredictionInput payloads of the service runs.
PredictInputs ==
    {[amount |-> 999, category |-> "general", features |-> None],
     [amount |-> 1000, category |-> "general", features |-> Some([k |-> "v"])]}

\* PredictionInput payloads of the rule runs: around both thresholds.
AmountSamples == (0..2) \cup (998..1002) \cup (9998..10002) \cup {20000}

PredictInputsWide ==
    [amount : AmountSamples,
     category : {"general", "vip"},
     features : {None, Some([k |-> "v"]), Some([amount |-> 20000])}]

\* TriageInput payloads (name, sex and antecedents are only stored).
TriageInputs ==
    {[age |-> 80, fever |-> TRUE, cough |-> FALSE, shortness_of_breath |-> FALSE]}

TriageInputsWide ==
    [age : 0..MaxAge, fever : BOOLEAN, cough : BOOLEAN,
     shortness_of_breath : BOOLEAN]

\* Training sets: TrainRecord rows.
PlainRecords ==
    <<[amount |-> 100, category |-> "general", features |-> None, label |-> "low"],
      [amount |-> 20000, category |-> "general", features |-> None, label |-> "high"]>>

FeatureRecords ==
    <<[amount |-> 100, category |-> "general", features |-> Some([k |-> "v"]),
       label |-> "low"],
      [amount |-> 20000, category |-> "general", features |-> None,
       label |-> "high"]>>

CandidateNames == {"RandomForest", "XGBoost", "LightGBM"}

\* Each candidate's grid for clf__n_estimators.
ParamGrid(name) ==
    IF name = "RandomForest" THEN {100, 300} ELSE {200, 400}

FitRaises ==
    [raises |-> TRUE, best_score |-> NaN, best_params |-> EmptyDict, rule |-> ""]

Fitted(score, n, rule) ==
    [raises |-> FALSE, best_score |-> score,
     best_params |-> [clf__n_estimators |-> n], rule |-> rule]

\* Every outcome of one candidate's grid search.
FitOutcomes(name) ==
    {FitRaises} \cup
    {Fitted(sc, n, r) : sc \in {NaN, Float(0), Float(1)},
                        n \in ParamGrid(name),
                        r \in {"by_amount", "always_medium"}}

Env(x, l, rf, xg, lg) ==
    [xgb |-> x, lgbm |-> l,
     fit |-> [c \in CandidateNames |->
                 CASE c = "RandomForest" -> rf
                   [] c = "XGBoost" -> xg
                   [] OTHER -> lg]]

EnvsWide ==
    {Env(x, l, rf, xg, lg) :
        x \in BOOLEAN, l \in BOOLEAN,
        rf \in FitOutcomes("RandomForest"),
        xg \in FitOutcomes("XGBoost"),
        lg \in FitOutcomes("LightGBM")}

TrainInputsWide ==
    {[records |-> r, env |-> e] : r \in {PlainRecords, FeatureRecords}, e \in EnvsWide}

\* The training requests of the service runs: the baseline alone; a set
\* with a feature column and two candidates, the second the better, its
\* learner answering with encoded classes; no records; every score nan;
\* a candidate whose fit raises.
TrainInputs ==
    {[records |-> PlainRecords,
      env |-> Env(FALSE, FALSE, Fitted(Float(1), 100, "by_amount"),
                  FitRaises, FitRaises)],
     [records |-> FeatureRecords,
      env |-> Env(FALSE, TRUE, Fitted(Float(0), 300, "by_amount"),
                  FitRaises, Fitted(Float(1), 200, "class_index"))],
     [records |-> <<>>,
      env |-> Env(FALSE, FALSE, Fitted(Float(1), 100, "by_amount"),
                  FitRaises, FitRaises)],
     [records |-> PlainRecords,
      env |-> Env(FALSE, TRUE, Fitted(NaN, 100, "by_amount"),
                  FitRaises, Fitted(NaN, 200, "by_amount"))],
     [records |-> PlainRecords,
      env |-> Env(TRUE, FALSE, Fitted(Float(1), 100, "by_amount"),
                  FitRaises, FitRaises)]}

\* PatientCreate bodies.
PatientInputs == {[name |-> "a", age |-> 30, sex |-> "female"]}

\* UpdatePatientRequest bodies, dumped with exclude_unset.
UpdateInputs == {[age |-> 50], [fever |-> TRUE]}

---------------------------------------------------------------------------
(* The service *)

Idle == [op |-> "idle", pc |-> "idle"]

\* The request of worker s with some fields set anew.
With(s, fields) == fields @@ req[s]

\* Requests on their way to commit a row.
Pending(op) ==
    {s \in Workers : req[s].op = op /\ req[s].pc \notin {"refresh", "done"}}

\* Sessions whose COMMIT has failed and that get_db has not closed yet:
\* the transaction is still open and keeps the file from every other
\* session, readers included.
Uncommitted == {s \in Workers : lock = s /\ req[s].pc = "done"}

\* Requests that will read the clock for a record's created_at.
Unflushed == {s \in Workers : req[s].pc = "flush"}

Init ==
    /\ models = <<>>
    /\ predictions = <<>>
    /\ now = 0
    /\ lock = 0
    /\ req = [s \in Workers |-> Idle]
    /\ patients = <<>>
    /\ shared = {}

\* predict, up to the record: the query for the active artifact and the
\* try block.  An exception leaving the block would end the request.
PredictInfer(s, inputs) ==
    /\ Uncommitted = {}
    /\ req[s] = Idle
    /\ now + Cardinality(Unflushed) < MaxPredictions
    /\ \E payload \in inputs :
         LET active_model == ActiveModel(models)
         IN \E importable \in (IF active_model = None THEN {TRUE} ELSE BOOLEAN) :
              LET r == infer(payload, active_model, importable)
              IN req' = [req EXCEPT ![s] =
                     [op |-> "predict",
                      pc |-> IF r.raised THEN "done" ELSE "flush",
                      status |-> IF r.raised THEN 500 ELSE 0,
                      payload |-> payload,
                      importable |-> importable,
                      risk |-> r.risk]]
    /\ shared' = shared \cup {s}
    /\ UNCHANGED <<models, predictions, now, lock, patients>>

\* predict: db.add(record); db.commit(), the flush.  It builds the INSERT's
\* parameters and evaluates created_at's default, datetime.now(UTC), before
\* the statement is sent.
PredictFlush(s) ==
    /\ req[s].op = "predict"
    /\ req[s].pc = "flush"
    /\ req' = [req EXCEPT ![s] = With(s, [pc |-> "insert", created_at |-> now + 1])]
    /\ now' = now + 1
    /\ shared' = shared \ {s}
    /\ UNCHANGED <<models, predictions, lock, patients>>

\* predict: db.commit(), the INSERT.  It opens the session's transaction,
\* takes SQLite's write lock and the next rowid; the row is the session's
\* until the COMMIT.
PredictInsert(s) ==
    /\ req[s].op = "predict"
    /\ req[s].pc = "insert"
    /\ lock = 0
    /\ lock' = s
    /\ req' = [req EXCEPT ![s] =
           With(s, [pc |-> "commit",
                    record |-> NewPrediction(predictions, req[s].risk, req[s].payload,
                                             req[s].created_at)])]
    /\ shared' = shared \ {s}
    /\ UNCHANGED <<models, predictions, now, patients>>

\* predict: db.commit(), the COMMIT.  The row is stored and the lock freed.
PredictCommit(s) ==
    /\ req[s].op = "predict"
    /\ req[s].pc = "commit"
    /\ lock = s
    /\ lock' = 0
    /\ predictions' = (req[s].record.id :> req[s].record) @@ predictions
    /\ req' = [req EXCEPT ![s] = With(s, [pc |-> "refresh"])]
    /\ shared' = {}
    /\ UNCHANGED <<models, now, patients>>

\* predict: db.refresh(record) and the response.  The row is read again by
\* its primary key; Session.refresh raises InvalidRequestError when it is
\* gone.  record.id is the key that was inserted, created_at the one read
\* back, risk the handler's local value.
PredictRefresh(s) ==
    /\ Uncommitted = {}
    /\ req[s].op = "predict"
    /\ req[s].pc = "refresh"
    /\ LET id == req[s].record.id
       IN IF id \in DOMAIN predictions
          THEN req' = [req EXCEPT ![s] =
                   With(s, [pc |-> "done", status |-> 200,
                            resp |-> [risk_level |-> req[s].risk, id |-> id,
                                      created_at |-> predictions[id].created_at]])]
          ELSE req' = [req EXCEPT ![s] = With(s, [pc |-> "done", status |-> 500])]
    /\ shared' = shared \cup {s}
    /\ UNCHANGED <<models, predictions, now, lock, patients>>

\* triage: the rule and the start of db.commit(), whose flush reads the
\* clock for created_at.  Nothing of the store is read before.
Triage(s, inputs) ==
    /\ req[s] = Idle
    /\ now + Cardinality(Unflushed) < MaxPredictions
    /\ \E payload \in inputs :
         req' = [req EXCEPT ![s] =
             [op |-> "triage", pc |-> "insert", status |-> 0,
              payload |-> payload,
              risk |-> triage_risk_model(payload),
              created_at |-> now + 1]]
    /\ now' = now + 1
    /\ shared' = shared \ {s}
    /\ UNCHANGED <<models, predictions, lock, patients>>

\* triage: the INSERT of db.commit().
TriageInsert(s) ==
    /\ req[s].op = "triage"
    /\ req[s].pc = "insert"
    /\ lock = 0
    /\ lock' = s
    /\ req' = [req EXCEPT ![s] =
           With(s, [pc |-> "commit",
                    record |-> NewPrediction(predictions, req[s].risk, req[s].payload,
                                             req[s].created_at)])]
    /\ shared' = shared \ {s}
    /\ UNCHANGED <<models, predictions, now, patients>>

\* triage: the COMMIT of db.commit().
TriageCommit(s) ==
    /\ req[s].op = "triage"
    /\ req[s].pc = "commit"
    /\ lock = s
    /\ lock' = 0
    /\ predictions' = (req[s].record.id :> req[s].record) @@ predictions
    /\ req' = [req EXCEPT ![s] = With(s, [pc |-> "refresh"])]
    /\ shared' = {}
    /\ UNCHANGED <<models, now, patients>>

\* triage: db.refresh(record) and the response.
TriageRefresh(s) ==
    /\ Uncommitted = {}
    /\ req[s].op = "triage"
    /\ req[s].pc = "refresh"
    /\ LET id == req[s].record.id
       IN IF id \in DOMAIN predictions
          THEN req' = [req EXCEPT ![s] =
                   With(s, [pc |-> "done", status |-> 200,
                            resp |-> [risk_level |-> req[s].risk, id |-> id,
                                      created_at |-> predictions[id].created_at]])]
          ELSE req' = [req EXCEPT ![s] = With(s, [pc |-> "done", status |-> 500])]
    /\ shared' = shared \cup {s}
    /\ UNCHANGED <<models, predictions, now, lock, patients>>

\* train: train_select_serialize; what it raises ends the request.
TrainCompute(s, inputs) ==
    /\ req[s] = Idle
    /\ Len(models) + Cardinality(Pending("train")) < MaxModels
    /\ \E input \in inputs :
         LET result == train_select_serialize(input.records, input.env)
         IN req' = [req EXCEPT ![s] =
                [op |-> "train",
                 pc |-> IF result.raised THEN "done" ELSE "update",
                 status |-> IF result.raised THEN 500 ELSE 0,
                 records |-> input.records,
                 env |-> input.env,
                 result |-> result]]
    /\ shared' = shared \ {s}
    /\ UNCHANGED <<models, predictions, now, lock, patients>>

\* train: the UPDATE that deactivates; it opens the session's transaction
\* and takes the write lock.
TrainUpdate(s) ==
    /\ req[s].op = "train"
    /\ req[s].pc = "update"
    /\ lock = 0
    /\ lock' = s
    /\ models' = CommittedAfterUpdate(models, Deactivate(models))
    /\ req' = [req EXCEPT ![s] = With(s, [pc |-> "commit", tx |-> Deactivate(models)])]
    /\ shared' = shared \ {s}
    /\ UNCHANGED <<predictions, now, patients>>

\* train: db.add(model_row); db.commit().  The INSERT and the COMMIT, which
\* frees the lock.
TrainCommit(s) ==
    /\ req[s].op = "train"
    /\ req[s].pc = "commit"
    /\ lock = s
    /\ LET model_row == NewModelArtifact(req[s].tx, req[s].result)
       IN /\ models' = Append(req[s].tx, model_row)
          /\ req' = [req EXCEPT ![s] =
                 [op |-> "train", pc |-> "refresh", status |-> 0,
                  records |-> req[s].records,
                  env |-> req[s].env,
                  result |-> req[s].result,
                  model_id |-> model_row.id]]
    /\ lock' = 0
    /\ shared' = {}
    /\ UNCHANGED <<predictions, now, patients>>

\* train: db.refresh(model_row) and the response.  The row is read again
\* by its primary key (no handler deletes a ModelArtifact); the response
\* carries the values train_select_serialize returned and the row's id.
TrainRefresh(s) ==
    /\ Uncommitted = {}
    /\ req[s].op = "train"
    /\ req[s].pc = "refresh"
    /\ \E i \in DOMAIN models : models[i].id = req[s].model_id
    /\ req' = [req EXCEPT ![s] =
           With(s, [pc |-> "done", status |-> 200,
                    resp |-> [best_model_name |-> req[s].result.best_name,
                              best_score |-> req[s].result.best_score,
                              best_params |-> req[s].result.best_params,
                              model_id |-> req[s].model_id]])]
    /\ shared' = shared \cup {s}
    /\ UNCHANGED <<models, predictions, now, lock, patients>>

\* A write statement meets SQLite's lock held by another session until the
\* busy timeout: OperationalError, the session is closed, nothing is
\* written.
DbBusy(s) ==
    /\ lock \notin {0, s}
    /\ \/ req[s].op \in {"predict", "triage", "create_patient"} /\ req[s].pc = "insert"
       \/ req[s].op = "train" /\ req[s].pc = "update"
       \/ req[s].op = "delete" /\ req[s].pc = "delete"
    /\ req' = [req EXCEPT ![s] = [op |-> req[s].op, pc |-> "done", status |-> 500]]
    /\ shared' = shared \ {s}
    /\ UNCHANGED <<models, predictions, now, lock, patients>>

\* A COMMIT needs the file to itself; it meets the read lock of another
\* session's SELECT until the busy timeout: OperationalError.  The handler
\* has raised, the transaction is still open and keeps its lock until
\* get_db closes the session.
CommitBusy(s) ==
    /\ lock = s
    /\ req[s].op \in {"predict", "triage", "train", "delete", "create_patient"}
    /\ req[s].pc = "commit"
    /\ shared \ {s} # {}
    /\ req' = [req EXCEPT ![s] = [op |-> req[s].op, pc |-> "done", status |-> 500]]
    /\ shared' = shared \ {s}
    /\ UNCHANGED <<models, predictions, now, lock, patients>>

\* The SELECT of a refresh meets the lock of another session that is
\* committing until the busy timeout: OperationalError; what the request
\* committed stays.
ReadBusy(s) ==
    /\ lock \notin {0, s}
    /\ req[s].op \in {"predict", "triage", "train", "create_patient", "update"}
    /\ req[s].pc = "refresh"
    /\ req' = [req EXCEPT ![s] = [op |-> req[s].op, pc |-> "done", status |-> 500]]
    /\ shared' = shared \ {s}
    /\ UNCHANGED <<models, predictions, now, lock, patients>>

\* The same for the SELECT a handler starts with (predict's query, the
\* lists, the patient lookups): the request fails before it did anything.
QueryBusy(s, ops) ==
    /\ req[s] = Idle
    /\ lock \notin {0, s}
    /\ \E op \in ops :
          req' = [req EXCEPT ![s] = [op |-> op, pc |-> "done", status |-> 500]]
    /\ shared' = shared \ {s}
    /\ UNCHANGED <<models, predictions, now, lock, patients>>

\* POST /patients: Patient(**patient.dict()); db.add(db_patient).
CreatePatient(s, inputs) ==
    /\ req[s] = Idle
    /\ Len(patients) + Cardinality(Pending("create_patient")) < MaxPatients
    /\ \E patient \in inputs :
          req' = [req EXCEPT ![s] =
              [op |-> "create_patient", pc |-> "insert", status |-> 0,
               payload |-> patient]]
    /\ shared' = shared \ {s}
    /\ UNCHANGED <<models, predictions, now, lock, patients>>

\* create_patient: db.commit(), the INSERT.  It takes the write lock and
\* the next rowid; created_at is SQLite's CURRENT_TIMESTAMP.
PatientInsert(s) ==
    /\ req[s].op = "create_patient"
    /\ req[s].pc = "insert"
    /\ lock = 0
    /\ lock' = s
    /\ req' = [req EXCEPT ![s] =
           With(s, [pc |-> "commit", record |-> NewPatient(patients, req[s].payload, now)])]
    /\ shared' = shared \ {s}
    /\ UNCHANGED <<models, predictions, now, patients>>

\* create_patient: db.commit(), the COMMIT.
PatientCommit(s) ==
    /\ req[s].op = "create_patient"
    /\ req[s].pc = "commit"
    /\ lock = s
    /\ lock' = 0
    /\ patients' = Append(patients, req[s].record)
    /\ req' = [req EXCEPT ![s] = With(s, [pc |-> "refresh"])]
    /\ shared' = {}
    /\ UNCHANGED <<models, predictions, now>>

\* create_patient: db.refresh(db_patient) and the response, the row as
\* PatientOut.
PatientRefresh(s) ==
    /\ Uncommitted = {}
    /\ req[s].op = "create_patient"
    /\ req[s].pc = "refresh"
    /\ \E i \in DOMAIN patients : patients[i].id = req[s].record.id
    /\ req' = [req EXCEPT ![s] =
           With(s, [pc |-> "done", status |-> 200,
                    resp |-> patients[req[s].record.id]])]
    /\ shared' = shared \cup {s}
    /\ UNCHANGED <<models, predictions, now, lock, patients>>

\* GET /predictions
ListPredictions(s) ==
    /\ Uncommitted = {}
    /\ req[s] = Idle
    /\ req' = [req EXCEPT ![s] =
           [op |-> "list_predictions", pc |-> "done", status |-> 200,
            resp |-> list_predictions(predictions)]]
    /\ shared' = shared \cup {s}
    /\ UNCHANGED <<models, predictions, now, lock, patients>>

\* GET /models
ListModels(s) ==
    /\ Uncommitted = {}
    /\ req[s] = Idle
    /\ req' = [req EXCEPT ![s] =
           [op |-> "list_models", pc |-> "done", status |-> 200,
            resp |-> list_models(models)]]
    /\ shared' = shared \cup {s}
    /\ UNCHANGED <<models, predictions, now, lock, patients>>

\* POST /patients/{id}/edit, update_patient up to its commit: the lookup
\* of the Prediction row; the row's input_data dict is changed in place.
\* The JSON column does not track in-place changes, so the commit has
\* nothing to write.  Without a row the request answers 404.
UpdatePatient(s) ==
    /\ Uncommitted = {}
    /\ req[s] = Idle
    /\ \E patient_id \in 1..MaxPredictions, updates \in UpdateInputs :
          req' = [req EXCEPT ![s] =
              IF patient_id \in DOMAIN predictions
              THEN [op |-> "update", pc |-> "refresh", status |-> 0,
                    id |-> patient_id]
              ELSE [op |-> "update", pc |-> "done", status |-> 404]]
    /\ shared' = shared \cup {s}
    /\ UNCHANGED <<models, predictions, now, lock, patients>>

\* update_patient: db.refresh(patient) reads the stored row back; it raises
\* when the row is gone.
UpdateRefresh(s) ==
    /\ Uncommitted = {}
    /\ req[s].op = "update"
    /\ req[s].pc = "refresh"
    /\ req' = [req EXCEPT ![s] =
           With(s, [pc |-> "done",
                    status |-> IF req[s].id \in DOMAIN predictions THEN 200 ELSE 500])]
    /\ shared' = shared \cup {s}
    /\ UNCHANGED <<models, predictions, now, lock, patients>>

\* POST /patients/{id}/delete, delete_patient's lookup of the Prediction
\* row.  Without a row the request answers 404.
DeletePatient(s) ==
    /\ Uncommitted = {}
    /\ req[s] = Idle
    /\ \E patient_id \in 1..MaxPredictions :
          req' = [req EXCEPT ![s] =
              IF patient_id \in DOMAIN predictions
              THEN [op |-> "delete", pc |-> "delete", status |-> 0,
                    id |-> patient_id]
              ELSE [op |-> "delete", pc |-> "done", status |-> 404]]
    /\ shared' = shared \cup {s}
    /\ UNCHANGED <<models, predictions, now, lock, patients>>

\* delete_patient: db.delete(patient); db.commit(), the DELETE.  It opens
\* the session's transaction and takes the write lock.  The DELETE names
\* the primary key; one that matches no row is a warning, not an error.
DeleteRow(s) ==
    /\ req[s].op = "delete"
    /\ req[s].pc = "delete"
    /\ lock = 0
    /\ lock' = s
    /\ req' = [req EXCEPT ![s] = With(s, [pc |-> "commit"])]
    /\ shared' = shared \ {s}
    /\ UNCHANGED <<models, predictions, now, patients>>

\* delete_patient: the COMMIT; the row is gone, the lock freed; the request
\* answers 200.
DeleteCommit(s) ==
    /\ req[s].op = "delete"
    /\ req[s].pc = "commit"
    /\ lock = s
    /\ lock' = 0
    /\ predictions' = [i \in DOMAIN predictions \ {req[s].id} |-> predictions[i]]
    /\ req' = [req EXCEPT ![s] = With(s, [pc |-> "done", status |-> 200])]
    /\ shared' = {}
    /\ UNCHANGED <<models, now, patients>>

\* get_db's finally: db.close() ends the session, rolling back a
\* transaction that a failed COMMIT left open, which frees its lock; the
\* worker is free again.
Return(s) ==
    /\ req[s].pc = "done"
    /\ req' = [req EXCEPT ![s] = Idle]
    /\ lock' = IF lock = s THEN 0 ELSE lock
    /\ shared' = shared \ {s}
    /\ UNCHANGED <<models, predictions, now, patients>>

\* The requests of the runs in which the handlers interleave: one payload,
\* a training request that succeeds and two that fail.
PredictInputsNarrow ==
    {[amount |-> 999, category |-> "general", features |-> None]}

TrainInputsNarrow ==
    {[records |-> PlainRecords,
      env |-> Env(FALSE, FALSE, Fitted(Float(1), 100, "by_amount"),
                  FitRaises, FitRaises)],
     [records |-> <<>>,
      env |-> Env(FALSE, FALSE, Fitted(Float(1), 100, "by_amount"),
                  FitRaises, FitRaises)],
     [records |-> PlainRecords,
      env |-> Env(FALSE, TRUE, Fitted(NaN, 100, "by_amount"),
                  FitRaises, Fitted(NaN, 200, "by_amount"))]}

\* The service with every worker taking requests, every handler.
NextService ==
    \E s \in Workers :
        \/ PredictInfer(s, PredictInputsNarrow)
        \/ PredictFlush(s)
        \/ PredictInsert(s)
        \/ PredictCommit(s)
        \/ PredictRefresh(s)
        \/ Triage(s, TriageInputs)
        \/ TriageInsert(s)
        \/ TriageCommit(s)
        \/ TriageRefresh(s)
        \/ TrainCompute(s, TrainInputsNarrow)
        \/ TrainUpdate(s)
        \/ TrainCommit(s)
        \/ TrainRefresh(s)
        \/ CreatePatient(s, PatientInputs)
        \/ PatientInsert(s)
        \/ PatientCommit(s)
        \/ PatientRefresh(s)
        \/ ListPredictions(s)
        \/ ListModels(s)
        \/ UpdatePatient(s)
        \/ UpdateRefresh(s)
        \/ DeletePatient(s)
        \/ DeleteRow(s)
        \/ DeleteCommit(s)
        \/ DbBusy(s)
        \/ CommitBusy(s)
        \/ ReadBusy(s)
        \/ QueryBusy(s, {"predict", "list_predictions", "list_models", "update", "delete"})
        \/ Return(s)

SpecService == Init /\ [][NextService]_vars

\* The payloads of a run that takes one predict request.
PredictInputsOnce ==
    IF now = 0 /\ Unflushed = {} THEN PredictInputsNarrow ELSE {}

\* The handlers that read or write the models table, interleaved: train,
\* list_models and one predict request; create_patient writes the same file.
Next ==
    \E s \in Workers :
        \/ PredictInfer(s, PredictInputsOnce)
        \/ PredictFlush(s)
        \/ PredictInsert(s)
        \/ PredictCommit(s)
        \/ PredictRefresh(s)
        \/ TrainCompute(s, TrainInputsNarrow)
        \/ TrainUpdate(s)
        \/ TrainCommit(s)
        \/ TrainRefresh(s)
        \/ CreatePatient(s, PatientInputs)
        \/ PatientInsert(s)
        \/ PatientCommit(s)
        \/ PatientRefresh(s)
        \/ ListModels(s)
        \/ DbBusy(s)
        \/ CommitBusy(s)
        \/ ReadBusy(s)
        \/ QueryBusy(s, {"predict", "list_models"})
        \/ Return(s)

Spec == Init /\ [][Next]_vars

\* The handlers that read or write the predictions table, interleaved, on
\* a store without artifact; create_patient writes the same file.
NextRecords ==
    \E s \in Workers :
        \/ PredictInfer(s, PredictInputsNarrow)
        \/ PredictFlush(s)
        \/ PredictInsert(s)
        \/ PredictCommit(s)
        \/ PredictRefresh(s)
        \/ Triage(s, TriageInputs)
        \/ TriageInsert(s)
        \/ TriageCommit(s)
        \/ TriageRefresh(s)
        \/ ListPredictions(s)
        \/ UpdatePatient(s)
        \/ UpdateRefresh(s)
        \/ DeletePatient(s)
        \/ DeleteRow(s)
        \/ DeleteCommit(s)
        \/ CreatePatient(s, PatientInputs)
        \/ PatientInsert(s)
        \/ PatientCommit(s)
        \/ PatientRefresh(s)
        \/ DbBusy(s)
        \/ CommitBusy(s)
        \/ ReadBusy(s)
        \/ QueryBusy(s, {"predict", "list_predictions", "update", "delete"})
        \/ Return(s)

SpecRecords == Init /\ [][NextRecords]_vars

\* The service with one worker: requests one after the other, on every
\* payload and training request of the service runs.
NextSequential ==
    \/ PredictInfer(1, PredictInputs)
    \/ PredictFlush(1)
    \/ PredictInsert(1)
    \/ PredictCommit(1)
    \/ PredictRefresh(1)
    \/ Triage(1, TriageInputs)
    \/ TriageInsert(1)
    \/ TriageCommit(1)
    \/ TriageRefresh(1)
    \/ TrainCompute(1, TrainInputs)
    \/ TrainUpdate(1)
    \/ TrainCommit(1)
    \/ TrainRefresh(1)
    \/ ListPredictions(1)
    \/ ListModels(1)
    \/ UpdatePatient(1)
    \/ UpdateRefresh(1)
    \/ DeletePatient(1)
    \/ DeleteRow(1)
    \/ DeleteCommit(1)
    \/ Return(1)

SpecSequential == Init /\ [][NextSequential]_vars

\* One predict or triage request on any payload of the rule runs.
NextRules ==
    \/ PredictInfer(1, PredictInputsWide)
    \/ PredictFlush(1)
    \/ PredictInsert(1)
    \/ PredictCommit(1)
    \/ PredictRefresh(1)
    \/ Triage(1, TriageInputsWide)
    \/ TriageInsert(1)
    \/ TriageCommit(1)
    \/ TriageRefresh(1)

SpecRules == Init /\ [][NextRules]_vars

\* One train request on any outcome of the candidates' grid searches.
NextTrain ==
    \/ TrainCompute(1, TrainInputsWide)
    \/ TrainUpdate(1)
    \/ TrainCommit(1)
    \/ TrainRefresh(1)

SpecTrain == Init /\ [][NextTrain]_vars

\* Requests whose features carry a key that is also a base column.
CollidingRecords ==
    <<[amount |-> 100, category |-> "general",
       features |-> Some([amount |-> 20000]), label |-> "low"],
      [amount |-> 20000, category |-> "general", features |-> None,
       label |-> "high"]>>

PredictInputsAssembly ==
    PredictInputs \cup
    {[amount |-> 100, category |-> "general", features |-> Some([amount |-> 20000])]}

TrainInputsAssembly ==
    {[records |-> r, env |-> e] :
        r \in {PlainRecords, FeatureRecords, CollidingRecords},
        e \in {Env(FALSE, FALSE, Fitted(Float(1), 100, "by_amount"),
                   FitRaises, FitRaises),
               Env(FALSE, TRUE, Fitted(Float(0), 300, "always_medium"),
                   FitRaises, Fitted(Float(1), 200, "by_amount"))}}

\* The service with one worker on the requests above: the rows and the
\* training tables assembled from features that collide and that do not.
NextAssembly ==
    \/ PredictInfer(1, PredictInputsAssembly)
    \/ PredictFlush(1)
    \/ PredictInsert(1)
    \/ PredictCommit(1)
    \/ PredictRefresh(1)
    \/ TrainCompute(1, TrainInputsAssembly)
    \/ TrainUpdate(1)
    \/ TrainCommit(1)
    \/ TrainRefresh(1)
    \/ Return(1)

SpecAssembly == Init /\ [][NextAssembly]_vars

---------------------------------------------------------------------------
(* Claims *)

\* C1 (SpecRules): for every non-negative amount the rule gives high from
\* 10000 on, medium from 1000 on and below 10000, low below 1000; the three
\* tiers are disjoint and category and features play no part.  The predict
\* request of a store without artifact carries the rule's risk.
C1_TransactionTiers ==
    \A s \in Workers :
        (req[s].op = "predict" /\ req[s].pc = "flush") =>
            LET amount == req[s].payload.amount
                risk == req[s].risk
            IN /\ risk = simple_risk_model(req[s].payload)
               /\ (amount >= 10000) <=> (risk = "high")
               /\ (amount >= 1000 /\ amount < 10000) <=> (risk = "medium")
               /\ (amount < 1000) <=> (risk = "low")
               /\ \A other \in PredictInputsWide :
                      other.amount = amount => simple_risk_model(other) = risk

\* A request on the lower bound of the medium tier has been classified.
C1_Witness ==
    \E s \in Workers :
        /\ req[s].op = "predict"
        /\ req[s].pc = "flush"
        /\ req[s].payload.amount = 1000
        /\ req[s].payload.features # None
        /\ req[s].risk = "medium"

\* C2 (SpecRules): for every TriageInput the risk is that of the ordered
\* decision list: high exactly when shortness of breath, or age >= 75 with
\* fever; medium exactly when not so and age >= 65 or fever with cough; low
\* otherwise.
C2_TriageDecisionList ==
    \A s \in Workers :
        (req[s].op = "triage" /\ req[s].pc = "done" /\ req[s].status = 200) =>
            LET p == req[s].payload
                risk == req[s].resp.risk_level
                rule1 == p.shortness_of_breath
                rule2 == p.age >= 75 /\ p.fever
                rule3 == p.age >= 65 \/ (p.fever /\ p.cough)
            IN /\ risk \in Labels
               /\ (risk = "high") <=> (rule1 \/ rule2)
               /\ (risk = "medium") <=> (~rule1 /\ ~rule2 /\ rule3)
               /\ (risk = "low") <=> (~rule1 /\ ~rule2 /\ ~rule3)
               /\ risk = triage_risk_model(p)

\* A patient matched by rule (2) and by rule (3) has been classified high.
C2_Witness ==
    \E s \in Workers :
        /\ req[s].op = "triage"
        /\ req[s].pc = "done"
        /\ req[s].payload.age >= 75
        /\ req[s].payload.fever
        /\ ~req[s].payload.shortness_of_breath
        /\ req[s].resp.risk_level = "high"

\* Whether the model path gives no valid label: no active artifact, the
\* bytes do not load, the prediction raises, or its value is no risk label.
NoValidLabel(payload, active_model, importable) ==
    \/ active_model = None
    \/ ~load_model_from_bytes(TheValue(active_model).artifact, importable).ok
    \/ LET model == load_model_from_bytes(TheValue(active_model).artifact, importable)
           pred == PipelinePredict(model.obj, PredictRow(payload))
       IN pred.raised \/ pred.value \notin Labels

\* C3 (SpecSequential): whenever the model path gives no valid label, the
\* risk of predict is the rule's, and no predict request ends in an error.
C3_FallbackToRules ==
    \A s \in Workers :
        req[s].op = "predict" =>
            /\ req[s].status # 500
            /\ req[s].pc = "flush" =>
                   (NoValidLabel(req[s].payload, ActiveModel(models), req[s].importable)
                        => req[s].risk = simple_risk_model(req[s].payload))

\* A predict request found an active artifact that did not load.
C3_Witness ==
    \E s \in Workers :
        /\ req[s].op = "predict"
        /\ req[s].pc = "flush"
        /\ ActiveModel(models) # None
        /\ ~req[s].importable
        /\ req[s].risk = simple_risk_model(req[s].payload)

\* C4 (SpecSequential): every risk level returned and every risk_level
\* stored is low, medium or high.
C4_RiskLevelsOnly ==
    /\ \A id \in DOMAIN predictions : predictions[id].risk_level \in Labels
    /\ \A s \in Workers :
        /\ (req[s].op \in {"predict", "triage"} /\ req[s].pc \in {"flush", "insert", "commit", "refresh"})
               => req[s].risk \in Labels
        /\ (req[s].op \in {"predict", "triage"} /\ req[s].pc = "done"
                /\ req[s].status = 200) => req[s].resp.risk_level \in Labels
        /\ (req[s].op = "list_predictions" /\ req[s].pc = "done") =>
               \A i \in DOMAIN req[s].resp : req[s].resp[i].risk_level \in Labels

\* A predict request was answered and recorded while the active artifact's
\* prediction for its payload is no risk label.
C4_Witness ==
    \E s \in Workers :
        /\ req[s].op = "predict"
        /\ req[s].pc = "done"
        /\ req[s].status = 200
        /\ req[s].importable
        /\ ActiveModel(models) # None
        /\ LET model == load_model_from_bytes(TheValue(ActiveModel(models)).artifact, TRUE)
               pred == PipelinePredict(model.obj, PredictRow(req[s].payload))
           IN model.ok /\ ~pred.raised /\ pred.value \notin Labels
        /\ req[s].resp.id \in DOMAIN predictions
        /\ predictions[req[s].resp.id].risk_level = req[s].resp.risk_level

ActiveIds(rows) == {rows[i].id : i \in {j \in DOMAIN rows : rows[j].active}}

\* C5 (Spec): the commit of a train leaves exactly one active artifact, the
\* one it created, and every artifact that was there before inactive; when
\* the train answers, exactly one artifact is active, the one it created or
\* one that a train committed after it.
C5_TrainActivatesNew ==
    [][\A s \in Workers :
          /\ (req[s].op = "train" /\ req[s].pc = "commit" /\ req'[s].pc = "refresh") =>
                /\ ActiveIds(models') = {req'[s].model_id}
                /\ req'[s].model_id \notin {models[i].id : i \in DOMAIN models}
                /\ Len(models') = Len(models) + 1
                /\ \A i \in DOMAIN models : ~models'[i].active
          /\ (req[s].op = "train" /\ req[s].pc = "refresh"
                 /\ req'[s].pc = "done" /\ req'[s].status = 200) =>
                /\ req'[s].resp.model_id = req[s].model_id
                /\ \E i \in DOMAIN models' :
                       /\ ActiveIds(models') = {models'[i].id}
                       /\ models'[i].id >= req[s].model_id
                       /\ models'[i].id > req[s].model_id =>
                              \E j \in DOMAIN models' :
                                  /\ j < i
                                  /\ models'[j].id = req[s].model_id
                                  /\ ~models'[j].active]_vars

\* C5 as stated: when a successful train answers, the one active artifact
\* is the one it created.
C5_ActiveWhenAnswered ==
    [][\A s \in Workers :
          (req[s].op = "train" /\ req[s].pc # "done"
              /\ req'[s].pc = "done" /\ req'[s].status = 200) =>
                ActiveIds(models') = {req'[s].resp.model_id}]_vars

\* Three trains have committed, the third over two stored artifacts; the
\* second and the third have answered 200, the second after the third's
\* commit, when its own artifact was inactive.
C5_Witness ==
    \E s \in Workers, t \in Workers :
        /\ req[s].op = "train"
        /\ req[s].pc = "done"
        /\ req[s].status = 200
        /\ req[s].resp.model_id = 2
        /\ req[t].op = "train"
        /\ req[t].pc = "done"
        /\ req[t].status = 200
        /\ req[t].resp.model_id = 3
        /\ Len(models) = 3
        /\ ActiveIds(models) = {3}

\* C6 (Spec): in every state a reader can see at most one artifact is
\* active, and once there is an artifact exactly one is; so it is in every
\* list a list-models reader received.
C6_OneActiveVisible ==
    /\ Cardinality(ActiveIds(models)) <= 1
    /\ models # <<>> => Cardinality(ActiveIds(models)) = 1
    /\ \A s \in Workers :
        (req[s].op = "list_models" /\ req[s].status = 200) =>
            LET active == {i \in DOMAIN req[s].resp : req[s].resp[i].active}
            IN /\ Cardinality(active) <= 1
               /\ req[s].resp # <<>> => Cardinality(active) = 1

\* A train stands between its UPDATE and its COMMIT over an artifact that
\* was active, while another worker has listed the models or queried the
\* active one.
C6_Witness ==
    \E s \in Workers, t \in Workers :
        /\ s # t
        /\ req[s].op = "train"
        /\ req[s].pc = "commit"
        /\ lock = s
        /\ models # <<>>
        /\ \/ req[t].op = "list_models" /\ req[t].status = 200
                 /\ req[t].resp = list_models(models)
           \/ req[t].op = "predict" /\ req[t].pc = "flush"

\* Whether a training request can fit nothing: no records, a grid search
\* that raises, or no available candidate with a score that is a number.
Available(env) ==
    {"RandomForest"} \cup (IF env.xgb THEN {"XGBoost"} ELSE {})
                     \cup (IF env.lgbm THEN {"LightGBM"} ELSE {})

TrainingFails(records, env) ==
    \/ records = <<>>
    \/ \E c \in Available(env) : env.fit[c].raises
    \/ \A c \in Available(env) : env.fit[c].best_score.kind # "num"

\* C7 (Spec): a train request whose training fails (train_select_serialize
\* raises) ends in an error at once and leaves the models table as it was;
\* the table changes only in the commit of a train request whose training
\* did not fail, and never in a step on which a train request answers an
\* error.
C7_FailedTrainLeavesStore ==
    [][/\ \A s \in Workers :
             (req[s] = Idle /\ req'[s].op = "train"
                 /\ TrainingFails(req'[s].records, req'[s].env)) =>
                 /\ req'[s].pc = "done"
                 /\ req'[s].status = 500
                 /\ models' = models
       /\ models' # models =>
             \E s \in Workers :
                 /\ req[s].op = "train"
                 /\ req[s].pc = "commit"
                 /\ req'[s].pc = "refresh"
                 /\ ~TrainingFails(req[s].records, req[s].env)
       /\ \A s \in Workers :
             (req'[s] # req[s] /\ req'[s].op = "train" /\ req'[s].status = 500) =>
                 models' = models]_vars

\* A train request failed while an artifact was active; it still is.
C7_Witness ==
    \E s \in Workers :
        /\ req[s].op = "train"
        /\ req[s].pc = "done"
        /\ req[s].status = 500
        /\ "records" \in DOMAIN req[s]
        /\ TrainingFails(req[s].records, req[s].env)
        /\ Cardinality(ActiveIds(models)) = 1

\* The candidates in the order of their registration.
Registered == <<"RandomForest", "XGBoost", "LightGBM">>

\* C8 (SpecTrain): a train that selects returns the name, the score and the
\* params of an available candidate whose score no available candidate
\* exceeds; of the candidates tied for that score it is the one registered
\* first.
C8_SelectsHighestFirst ==
    \A s \in Workers :
        (req[s].op = "train" /\ req[s].pc \in {"update", "commit", "refresh", "done"}
            /\ req[s].status # 500) =>
            LET fit == req[s].env.fit
                result == req[s].result
                avail == {i \in DOMAIN Registered : Registered[i] \in Available(req[s].env)}
                score(i) == fit[Registered[i]].best_score
            IN \E i \in avail :
                 /\ result.best_name = Registered[i]
                 /\ result.best_score = score(i)
                 /\ result.best_params = fit[Registered[i]].best_params
                 /\ score(i).kind = "num"
                 /\ \A j \in avail :
                        score(j).kind = "num" => score(j).v <= score(i).v
                 /\ \A j \in avail :
                        (j < i /\ score(j).kind = "num") => score(j).v < score(i).v
                 /\ req[s].pc = "done" =>
                        /\ req[s].resp.best_model_name = Registered[i]
                        /\ req[s].resp.best_score = score(i)
                        /\ req[s].resp.best_params = fit[Registered[i]].best_params

\* A train has answered where the baseline and a later candidate tie for
\* the highest score: the baseline is returned.
C8_Witness ==
    \E s \in Workers :
        /\ req[s].op = "train"
        /\ req[s].pc = "done"
        /\ req[s].status = 200
        /\ req[s].env.xgb
        /\ req[s].env.fit["XGBoost"].best_score = req[s].env.fit["RandomForest"].best_score
        /\ req[s].env.fit["XGBoost"].best_params # req[s].env.fit["RandomForest"].best_params
        /\ req[s].resp.best_model_name = "RandomForest"

\* C9 (SpecRecords): a predict or triage request changes the predictions
\* table in one step only, its COMMIT, which adds exactly one row under a
\* new id, with the request's risk level and payload; the request that
\* answers 200 returns that id and that risk level.  A stored row never
\* changes and leaves the table only by the COMMIT of a delete request for
\* its id.  Every list-predictions result taken afterwards holds every
\* stored row (no more than 100 rows), so the row that an answered request
\* inserted, as long as it is stored, with the risk level and the payload
\* of the request.
C9_OneRecordPerPrediction ==
    [][/\ \A s \in Workers :
             (req'[s] # req[s] /\ req'[s].op \in {"predict", "triage"}) =>
                 IF req[s].op = req'[s].op /\ req[s].pc = "commit" /\ req'[s].pc = "refresh"
                 THEN LET id == req[s].record.id
                      IN /\ id \notin DOMAIN predictions
                         /\ DOMAIN predictions' = DOMAIN predictions \cup {id}
                         /\ predictions'[id].id = id
                         /\ predictions'[id].risk_level = req[s].risk
                         /\ predictions'[id].input_data = req[s].payload
                 ELSE /\ predictions' = predictions
                      /\ (req'[s].pc = "done" /\ req'[s].status = 200) =>
                             /\ req[s].pc = "refresh"
                             /\ req'[s].resp.id = req[s].record.id
                             /\ req'[s].resp.risk_level = req[s].risk
                             /\ req'[s].payload = req[s].payload
       /\ \A id \in DOMAIN predictions :
             \/ id \in DOMAIN predictions' /\ predictions'[id] = predictions[id]
             \/ /\ id \notin DOMAIN predictions'
                /\ \E s \in Workers :
                       /\ req[s].op = "delete"
                       /\ req[s].pc = "commit"
                       /\ req[s].id = id
                       /\ req'[s].status = 200
       /\ \A t \in Workers :
             (req[t] = Idle /\ req'[t].op = "list_predictions" /\ req'[t].status = 200
                 /\ Cardinality(DOMAIN predictions) <= ListLimit) =>
                 LET listed == req'[t].resp
                 IN /\ \A id \in DOMAIN predictions :
                           \E k \in DOMAIN listed : listed[k] = predictions[id]
                    /\ \A s \in Workers :
                           (/\ req[s].op \in {"predict", "triage"}
                            /\ req[s].status = 200
                            /\ req[s].resp.id \in DOMAIN predictions
                            /\ predictions[req[s].resp.id] = req[s].record) =>
                               \E k \in DOMAIN listed :
                                   /\ listed[k].id = req[s].resp.id
                                   /\ listed[k].risk_level = req[s].resp.risk_level
                                   /\ listed[k].input_data = req[s].payload]_vars

\* A predict request was answered with the id of its row; a list taken
\* afterwards by another worker holds the row, first although its id is the
\* smaller one: its INSERT came before that of a request that had read the
\* clock earlier.
C9_Witness ==
    \E s \in Workers, t \in Workers :
        /\ req[s].op = "predict"
        /\ req[s].pc = "done"
        /\ req[s].status = 200
        /\ req[s].resp.id = 1
        /\ DOMAIN predictions = {1, 2}
        /\ predictions[1].risk_level = req[s].resp.risk_level
        /\ predictions[1].input_data = req[s].payload
        /\ predictions[1].created_at > predictions[2].created_at
        /\ req[t].op = "list_predictions"
        /\ req[t].status = 200
        /\ Len(req[t].resp) = 2
        /\ req[t].resp[1] = predictions[1]

\* C11 (SpecSequential): in every step each ModelArtifact row stays in the
\* table with its id, name, created_at, metrics and artifact; its active
\* flag changes at most from true to false; a row is added only by the
\* commit of a train request, which then answers 200 with that row's id.
C11_ArtifactsImmutable ==
    [][/\ \A i \in DOMAIN models :
             /\ i \in DOMAIN models'
             /\ models'[i].id = models[i].id
             /\ models'[i].name = models[i].name
             /\ models'[i].created_at = models[i].created_at
             /\ models'[i].metrics = models[i].metrics
             /\ models'[i].artifact = models[i].artifact
             /\ models'[i].active => models[i].active
       /\ Len(models') # Len(models) =>
             /\ Len(models') = Len(models) + 1
             /\ \E s \in Workers :
                    /\ req[s].op = "train"
                    /\ req[s].pc = "commit"
                    /\ req'[s].pc = "refresh"
                    /\ req'[s].model_id = models'[Len(models')].id
                    /\ models'[Len(models')].artifact = req[s].result.artifact
                    /\ models'[Len(models')].name = req[s].result.best_name
       /\ \A s \in Workers :
             (req[s].op = "train" /\ req[s].pc = "refresh" /\ req'[s] # req[s]) =>
                 /\ req'[s].pc = "done"
                 /\ req'[s].status = 200
                 /\ req'[s].resp.model_id = req[s].model_id]_vars

\* Two trains have answered: the first artifact is still stored, no longer
\* active, beside the second, which has another name and other bytes.
C11_Witness ==
    /\ Len(models) = 2
    /\ ~models[1].active
    /\ models[2].active
    /\ models[1].name # models[2].name
    /\ models[1].artifact # models[2].artifact
    /\ load_model_from_bytes(models[1].artifact, TRUE).ok

\* The records of a request's features that carry the key c.
Colliding(features, c) == features # None /\ c \in DOMAIN TheValue(features)

\* C12 (SpecAssembly): where a request's features carry the key of a base
\* column (amount, category), the row assembled by predict and the table
\* assembled by train have a single column of that name, and its value is
\* the features' value.
C12_CollisionOverwrites ==
    \A s \in Workers :
        /\ req[s].op = "predict" =>
              LET row == PredictRow(req[s].payload)
              IN \A c \in {"amount", "category"} :
                     Colliding(req[s].payload.features, c) =>
                         row[c] = TheValue(req[s].payload.features)[c]
        /\ (req[s].op = "train" /\ req[s].records # <<>>) =>
              LET records == req[s].records
                  df == records_to_dataframe(records)
              IN \A c \in {"amount", "category"} :
                     (\E i \in DOMAIN records : Colliding(records[i].features, c)) =>
                         /\ Cardinality({j \in DOMAIN df.columns : df.columns[j] = c}) = 1
                         /\ \A j \in DOMAIN df.columns, i \in DOMAIN records :
                                (df.columns[j] = c /\ Colliding(records[i].features, c)) =>
                                    df.cells[j][i] = Some(TheValue(records[i].features)[c])

\* Whether the import of an optional candidate's learner succeeds.
Resolved(env, c) ==
    CASE c = "XGBoost" -> env.xgb
      [] c = "LightGBM" -> env.lgbm
      [] OTHER -> TRUE

\* C13 (SpecTrain): the set of candidates a training run evaluates starts
\* with RandomForest and holds an optional candidate exactly when its
\* learner is resolved; a run with records where every resolved candidate
\* fits and one of them scores a number answers with a resolved candidate,
\* whatever the unresolved ones would have done.
C13_UnresolvedOmitted ==
    \A s \in Workers :
        req[s].op = "train" =>
            LET env == req[s].env
                result == req[s].result
                evaluated == Grids(env)
                resolved == {c \in CandidateNames : Resolved(env, c)}
            IN /\ Len(evaluated) >= 1
               /\ evaluated[1] = "RandomForest"
               /\ {evaluated[i] : i \in DOMAIN evaluated} = resolved
               /\ (/\ req[s].records # <<>>
                   /\ \A c \in resolved : ~env.fit[c].raises
                   /\ \E c \in resolved : env.fit[c].best_score.kind = "num") =>
                      /\ ~result.raised
                      /\ req[s].status # 500
                      /\ result.best_name \in resolved

\* A train has answered although XGBoost is not resolved (and would have
\* raised): the run went on to LightGBM, which won.
C13_Witness ==
    \E s \in Workers :
        /\ req[s].op = "train"
        /\ req[s].pc = "done"
        /\ req[s].status = 200
        /\ ~req[s].env.xgb
        /\ req[s].env.lgbm
        /\ req[s].env.fit["XGBoost"].raises
        /\ req[s].resp.best_model_name = "LightGBM"

\* The table with every row's active flag set.
AllActive(rows) == [i \in DOMAIN rows |-> [rows[i] EXCEPT !.active = TRUE]]

\* C14 (SpecSequential): a predict request that starts when no artifact is
\* stored answers by the rule; one that starts after trains have answered
\* computes its risk from the artifact of the last of them, which is the
\* only active one, loaded from its stored bytes.  Were every stored row
\* active, the query would return the one created last.
C14_PredictConsultsActive ==
    [][\A s \in Workers :
          (req[s] = Idle /\ req'[s].op = "predict") =>
              LET payload == req'[s].payload
                  importable == req'[s].importable
              IN IF models = <<>>
                 THEN req'[s].risk = simple_risk_model(payload)
                 ELSE LET newest == models[Len(models)]
                      IN /\ newest.active
                         /\ \A i \in DOMAIN models :
                                /\ i < Len(models) => ~models[i].active
                                /\ models[i].created_at <= newest.created_at
                         /\ req'[s].risk = infer(payload, Some(newest), importable).risk
                         /\ ActiveModel(AllActive(models)) = Some(AllActive(models)[Len(models)])]_vars

\* After two trains a predict request got the risk the second artifact
\* gives, which is not the risk the first, deactivated one would give.
C14_Witness ==
    \E s \in Workers :
        /\ req[s].op = "predict"
        /\ req[s].pc = "flush"
        /\ Len(models) = 2
        /\ ~models[1].active
        /\ models[2].active
        /\ req[s].risk = infer(req[s].payload, Some(models[2]), req[s].importable).risk
        /\ req[s].risk # infer(req[s].payload, Some(models[1]), req[s].importable).risk

====
